---- MODULE Spec2Model ----
(***************************************************************************)
(* Model of Usb.Events/Mac/UsbEventWatcher.Mac.c: the hot-plug watcher     *)
(* (StartMacWatcher / StopMacWatcher and the run loop they share) and the  *)
(* mount point resolution (GetMacMountPoint / getMountPathByBSDName).      *)
(*                                                                         *)
(* The watcher keeps its session in process-wide globals (lines 38-43,     *)
(* 389-392); every thread that enters StartMacWatcher writes them.         *)
(***************************************************************************)
EXTENDS Integers, Sequences, FiniteSets, TLC

\* ------------------------------------------------------------------ bounds
MaxRuns == 2        \* calls of StartMacWatcher over the whole behaviour
MaxStops == 2       \* calls of StopMacWatcher over the whole behaviour
MaxEvents == 1      \* plug / unplug events of the environment
MaxStops2 == 1      \* calls of StopMacWatcher when two sessions run

Devices == {1, 2}            \* USB devices of the registry
Stoppers == {1}              \* threads that call StopMacWatcher, each any number of times
Threads == {1, 2}            \* threads that may call StartMacWatcher
Objs == 1..MaxRuns           \* ids of notification ports / run loop sources
NULL == 0

\* sizeof(usbDevice.DeviceName), UsbDeviceData.DeviceName[512]
DeviceNameCap == 512

VARIABLES
    sessions,            \* the threads that call StartMacWatcher (fixed by Init)
    pc,                  \* position of each watcher thread inside StartMacWatcher
    itPort,              \* the port whose io_iterator_t the thread is draining
    InsertedCallback,    \* global, line 38
    RemovedCallback,     \* global, line 39
    notificationPort,    \* global, line 43
    stopRunLoopSource,   \* global, line 390
    runLoop,             \* global, line 392
    ports,               \* IONotificationPort objects
    srcs,                \* CFRunLoopSource objects made by addStopRunLoopSource
    loopStopped,         \* CFRunLoop "stopped" bit of each thread's run loop
    woke,                \* CFRunLoop wake-up pending (wake port / first pass)
    spc,                 \* position of each stopper inside StopMacWatcher
    sh,                  \* the stopRunLoopSource value a stopper loaded at its test
    present,             \* devices attached to the registry
    gone,                \* devices that were detached (a re-attached device is a new entry)
    runs, stops, events, \* counters that bound the behaviour
    crashed,             \* the process died (NULL / freed object passed to CF)
    \* ---- history (observation only, never read by the program's actions)
    log,                 \* listener calls / skipped handles of the current run
    presentAtSub,        \* devices present when the arrival subscription was made
    myPort,              \* the port the current run of a thread created
    mySrc,               \* the stop source the current run of a thread created
    reachedLoop,         \* the current run called CFRunLoopRun
    returned,            \* number of runs of the thread that returned
    stopReq,             \* StopMacWatcher was entered while the run was active
    srcReleases,         \* CFRelease calls per stop source
    portDestroys,        \* IONotificationPortDestroy calls per port
    staleSignal,         \* CFRunLoopSourceSignal was handed a released source
    staleWake,           \* CFRunLoopWakeUp was handed a loop no run is bound to
    staleUse,            \* another released / foreign handle was used
    idleStops,           \* StopMacWatcher calls entered while no run was active
    termSeen,            \* terminations queued for the run's port; running: the loop was running
    setupFailed,         \* the direction whose set-up failed in the current run
    released,            \* the handles IOObjectRelease was called on, in the current run
    earlyStop,           \* the stop source was signaled before CFRunLoopRun was called
    batchStop,           \* 0, or 1 + the length of the log when the stop source was
                         \* first signaled while its loop was inside a callback
    \* ---- mount point resolution (GetMacMountPoint)
    mIn,                 \* the inputs of one call: syspath and the registry
    mCalls,              \* the arguments mountPointCallback was called with
    mSel,                \* the interface the call selected, by iteration order (0: none)
    mDone,               \* the call returned
    \* ---- record construction (get_usb_device_info, lines 225-354)
    iIn,                 \* the registry properties of the device handle
    iCalls,              \* the records the listener was called with
    iDone                \* the call returned

wvars == <<sessions, pc, itPort, InsertedCallback, RemovedCallback, notificationPort,
           stopRunLoopSource, runLoop, ports, srcs, loopStopped, woke, spc, sh,
           present, gone, runs, stops, events, crashed>>
hy == <<released, batchStop, earlyStop>>
hx == <<idleStops, termSeen, setupFailed, hy>>
hvars == <<log, presentAtSub, myPort, mySrc, reachedLoop, returned, stopReq,
           srcReleases, portDestroys, staleSignal, staleWake, staleUse, hx>>
mvars == <<mIn, mCalls, mSel, mDone>>
ivars == <<iIn, iCalls, iDone>>
vars == <<wvars, hvars, mvars, ivars>>

\* ------------------------------------------------------------- helpers
Min(a, b) == IF a < b THEN a ELSE b

\* snprintf(dst, cap, "%s", s): at most cap-1 characters are copied
Snprintf(s, cap) == SubSeq(s, 1, Min(Len(s), cap - 1))

\* The name IORegistryEntryGetName reports for a device
DevName(d) == <<100 + d>>

\* The registry's devices in iteration order
RECURSIVE SetToSeq(_)
SetToSeq(S) == IF S = {} THEN <<>>
               ELSE LET m == CHOOSE x \in S : \A y \in S : x <= y
                    IN <<m>> \o SetToSeq(S \ {m})

NoPort == [state |-> "none", loop |-> 0, arr |-> FALSE, rem |-> FALSE,
           arrQ |-> <<>>, remQ |-> <<>>]
NoSrc == [state |-> "none", loop |-> 0, signaled |-> FALSE]

\* IONotificationPortCreate / CFRunLoopSourceCreate: a fresh object
NewPort == CHOOSE p \in Objs : ports[p].state = "none" /\ \A q \in Objs : q < p => ports[q].state # "none"
NewSrc == CHOOSE s \in Objs : srcs[s].state = "none" /\ \A q \in Objs : q < s => srcs[q].state # "none"

\* pc values at which the thread is inside CFRunLoopRun
InLoop == {"loop", "loopArr", "loopRem"}
\* pc values at which the thread drains an iterator
Draining == {"catchArr", "catchRem", "loopArr", "loopRem"}

\* CFRunLoopStop(l): sets the stopped bit of a loop that is running (line 398)
CFRunLoopStop(l) ==
    IF l \in sessions /\ pc[l] \in InLoop
    THEN [loopStopped EXCEPT ![l] = TRUE]
    ELSE loopStopped

\* The bound on stop calls of the behaviour
StopLimit == IF Cardinality(sessions) = 1 THEN MaxStops ELSE MaxStops2

\* ------------------------------------------------------------- Init
InitWatcher ==
    /\ pc = [w \in Threads |-> "idle"]
    /\ itPort = [w \in Threads |-> 0]
    /\ InsertedCallback = 0
    /\ RemovedCallback = 0
    /\ notificationPort = NULL
    /\ stopRunLoopSource = NULL
    /\ runLoop = NULL
    /\ ports = [p \in Objs |-> NoPort]
    /\ srcs = [s \in Objs |-> NoSrc]
    /\ loopStopped = [w \in Threads |-> FALSE]
    /\ woke = [w \in Threads |-> FALSE]
    /\ spc = [s \in Stoppers |-> "idle"]
    /\ sh = [s \in Stoppers |-> NULL]
    /\ gone = {}
    /\ runs = 0 /\ stops = 0 /\ events = 0
    /\ crashed = FALSE
    /\ log = [w \in Threads |-> <<>>]
    /\ presentAtSub = [w \in Threads |-> {}]
    /\ myPort = [w \in Threads |-> 0]
    /\ mySrc = [w \in Threads |-> 0]
    /\ reachedLoop = [w \in Threads |-> FALSE]
    /\ returned = [w \in Threads |-> 0]
    /\ stopReq = [w \in Threads |-> FALSE]
    /\ srcReleases = [s \in Objs |-> 0]
    /\ portDestroys = [p \in Objs |-> 0]
    /\ staleSignal = FALSE
    /\ staleWake = FALSE
    /\ staleUse = FALSE
    /\ idleStops = 0
    /\ termSeen = [w \in Threads |-> <<>>]
    /\ setupFailed = [w \in Threads |-> "none"]
    /\ released = [w \in Threads |-> <<>>]
    /\ batchStop = [w \in Threads |-> 0]
    /\ earlyStop = [w \in Threads |-> FALSE]

\* GetMacMountPoint is not called
NoMount == [syspathNull |-> TRUE, syspath |-> <<>>, ifaces |-> <<>>, sessionOK |-> TRUE,
            matchOK |-> TRUE, services |-> <<>>, own |-> <<>>]

\* get_usb_device_info is not being observed
NoInfo == [nameOK |-> FALSE]

\* One watcher session, any number of stop calls, devices that come and go
Init ==
    /\ InitWatcher
    /\ sessions = {1}
    /\ present \in SUBSET Devices
    /\ mIn = NoMount /\ mCalls = <<>> /\ mSel = 0 /\ mDone = TRUE
    /\ iIn = NoInfo /\ iCalls = <<>> /\ iDone = TRUE

\* ------------------------------------------------------------- watcher thread
\* When the host starts a session: a second session is started while the
\* first one is idle or inside its event loop
StartAllowed(w) == \A v \in sessions \ {w} : pc[v] \in InLoop \cup {"idle"}

\* StartMacWatcher, lines 547-550.  The listeners a session passes are named
\* w (insertedCallback) and -w (removedCallback).
StartMacWatcher(w) ==
    /\ w \in sessions
    /\ ~crashed
    /\ pc[w] = "idle"
    /\ StartAllowed(w)
    /\ runs < MaxRuns
    /\ runs' = runs + 1
    /\ InsertedCallback' = w
    /\ RemovedCallback' = -w
    /\ runLoop' = w
    /\ pc' = [pc EXCEPT ![w] = "init"]
    /\ log' = [log EXCEPT ![w] = <<>>]
    /\ presentAtSub' = [presentAtSub EXCEPT ![w] = {}]
    /\ myPort' = [myPort EXCEPT ![w] = 0]
    /\ mySrc' = [mySrc EXCEPT ![w] = 0]
    /\ reachedLoop' = [reachedLoop EXCEPT ![w] = FALSE]
    /\ stopReq' = [stopReq EXCEPT ![w] = FALSE]
    /\ termSeen' = [termSeen EXCEPT ![w] = <<>>]
    /\ setupFailed' = [setupFailed EXCEPT ![w] = "none"]
    /\ released' = [released EXCEPT ![w] = <<>>]
    /\ batchStop' = [batchStop EXCEPT ![w] = 0]
    /\ earlyStop' = [earlyStop EXCEPT ![w] = FALSE]
    /\ UNCHANGED <<sessions, itPort, notificationPort, stopRunLoopSource, ports, srcs,
                   loopStopped, woke, spc, sh, present, gone, stops, events, crashed,
                   returned, srcReleases, portDestroys, staleSignal, staleWake,
                   staleUse, idleStops, mvars, ivars>>

\* init_notifier, lines 439-445
init_notifier(w) ==
    /\ w \in sessions
    /\ ~crashed
    /\ pc[w] = "init"
    /\ LET p == NewPort IN
        /\ notificationPort' = p
        /\ ports' = [ports EXCEPT ![p] = [NoPort EXCEPT !.state = "alive", !.loop = runLoop]]
        /\ myPort' = [myPort EXCEPT ![w] = p]
    /\ pc' = [pc EXCEPT ![w] = "subArr"]
    /\ UNCHANGED <<sessions, itPort, InsertedCallback, RemovedCallback, stopRunLoopSource,
                   runLoop, srcs, loopStopped, woke, spc, sh, present, gone, runs, stops,
                   events, crashed, log, presentAtSub, mySrc, reachedLoop, returned,
                   stopReq, srcReleases, portDestroys, staleSignal, staleWake,
                   staleUse, hx, mvars, ivars>>


\* Mutant of get_usb_device_info: the name is copied with a capacity of one byte
get_usb_device_info_NameCut(d, newdev, nameOK, inLoop) ==
    IF ~nameOK
    THEN [newdev |-> newdev, dev |-> d, named |-> nameOK, lst |-> 0, name |-> <<>>,
          inLoop |-> inLoop]
    ELSE [newdev |-> newdev, dev |-> d, named |-> nameOK,
          lst |-> IF newdev THEN InsertedCallback ELSE RemovedCallback,
          name |-> Snprintf(DevName(d), 1),
          inLoop |-> inLoop]

\* Mutant of get_usb_device_info: the branches of line 358 are swapped
get_usb_device_info_SwapsListeners(d, newdev, nameOK, inLoop) ==
    IF ~nameOK
    THEN [newdev |-> newdev, dev |-> d, named |-> nameOK, lst |-> 0, name |-> <<>>,
          inLoop |-> inLoop]
    ELSE [newdev |-> newdev, dev |-> d, named |-> nameOK,
          lst |-> IF newdev THEN RemovedCallback ELSE InsertedCallback,
          name |-> Snprintf(DevName(d), DeviceNameCap),
          inLoop |-> inLoop]

\* Mutant of get_usb_device_info: the return of line 222 is missing
get_usb_device_info_CallsUnnamed(d, newdev, nameOK, inLoop) ==
    [newdev |-> newdev, dev |-> d, named |-> nameOK,
     lst |-> IF newdev THEN InsertedCallback ELSE RemovedCallback,
     name |-> IF nameOK THEN Snprintf(DevName(d), DeviceNameCap) ELSE <<>>,
     inLoop |-> inLoop]

\* get_usb_device_info, lines 209-366: the record handed to the listener, or no
\* call at all when IORegistryEntryGetName fails (lines 219-223).  lst = 0 marks
\* a handle that was skipped.
get_usb_device_info(d, newdev, nameOK, inLoop) ==
    IF ~nameOK
    THEN [newdev |-> newdev, dev |-> d, named |-> nameOK, lst |-> 0, name |-> <<>>,
          inLoop |-> inLoop]
    ELSE [newdev |-> newdev, dev |-> d, named |-> nameOK,
          lst |-> IF newdev THEN InsertedCallback ELSE RemovedCallback,
          name |-> Snprintf(DevName(d), DeviceNameCap),
          inLoop |-> inLoop]

\* Mutant of SubscribeArrival: the catch-up call of line 478 is missing, the
\* handles of the devices already present wait for the loop
SubscribeArrival_NoCatchUp(w) ==
    /\ w \in sessions
    /\ ~crashed
    /\ pc[w] = "subArr"
    /\ \E r \in {"ok", "nodict", "fail"} :
        IF r = "ok" /\ ports[notificationPort].state = "alive"
        THEN /\ ports' = [ports EXCEPT ![notificationPort].arr = TRUE,
                                       ![notificationPort].arrQ = SetToSeq(present)]
             /\ itPort' = [itPort EXCEPT ![w] = notificationPort]
             /\ presentAtSub' = [presentAtSub EXCEPT ![w] = present]
             /\ pc' = [pc EXCEPT ![w] = "subRem"]
             /\ UNCHANGED setupFailed
        ELSE /\ pc' = [pc EXCEPT ![w] = "deinit"]
             /\ setupFailed' = [setupFailed EXCEPT ![w] = "arrival"]
             /\ UNCHANGED <<ports, itPort, presentAtSub>>
    /\ UNCHANGED <<sessions, InsertedCallback, RemovedCallback, notificationPort,
                   stopRunLoopSource, runLoop, srcs, loopStopped, woke, spc, sh, present, gone,
                   runs, stops, events, crashed, log, myPort, mySrc, reachedLoop,
                   returned, stopReq, srcReleases, portDestroys, staleSignal, staleWake,
                   staleUse, idleStops, termSeen, hy, mvars, ivars>>

\* configure_and_start_notifier, lines 456-476: the arrival subscription.
\* IOServiceMatching may return NULL, IOServiceAddMatchingNotification may fail;
\* both return from configure_and_start_notifier.
SubscribeArrival(w) ==
    /\ w \in sessions
    /\ ~crashed
    /\ pc[w] = "subArr"
    /\ \E r \in {"ok", "nodict", "fail"} :
        IF r = "ok" /\ ports[notificationPort].state = "alive"
        THEN /\ ports' = [ports EXCEPT ![notificationPort].arr = TRUE,
                                       ![notificationPort].arrQ = SetToSeq(present)]
             /\ itPort' = [itPort EXCEPT ![w] = notificationPort]
             /\ presentAtSub' = [presentAtSub EXCEPT ![w] = present]
             /\ pc' = [pc EXCEPT ![w] = "catchArr"]
             /\ UNCHANGED setupFailed
        ELSE /\ pc' = [pc EXCEPT ![w] = "deinit"]
             /\ setupFailed' = [setupFailed EXCEPT ![w] = "arrival"]
             /\ UNCHANGED <<ports, itPort, presentAtSub>>
    /\ UNCHANGED <<sessions, InsertedCallback, RemovedCallback, notificationPort,
                   stopRunLoopSource, runLoop, srcs, loopStopped, woke, spc, sh, present, gone,
                   runs, stops, events, crashed, log, myPort, mySrc, reachedLoop,
                   returned, stopReq, srcReleases, portDestroys, staleSignal, staleWake,
                   staleUse, idleStops, termSeen, hy, mvars, ivars>>

\* configure_and_start_notifier, lines 480-499: the removal subscription
SubscribeRemoval(w) ==
    /\ w \in sessions
    /\ ~crashed
    /\ pc[w] = "subRem"
    /\ \E r \in {"ok", "nodict", "fail"} :
        IF r = "ok" /\ ports[notificationPort].state = "alive"
        THEN /\ ports' = [ports EXCEPT ![notificationPort].rem = TRUE,
                                       ![notificationPort].remQ = <<>>]
             /\ itPort' = [itPort EXCEPT ![w] = notificationPort]
             /\ pc' = [pc EXCEPT ![w] = "catchRem"]
             /\ UNCHANGED setupFailed
        ELSE /\ pc' = [pc EXCEPT ![w] = "deinit"]
             /\ setupFailed' = [setupFailed EXCEPT ![w] = "removal"]
             /\ UNCHANGED <<ports, itPort>>
    /\ UNCHANGED <<sessions, InsertedCallback, RemovedCallback, notificationPort,
                   stopRunLoopSource, runLoop, srcs, loopStopped, woke, spc, sh, present, gone,
                   runs, stops, events, crashed, log, presentAtSub, myPort, mySrc,
                   reachedLoop, returned, stopReq, srcReleases, portDestroys, staleSignal,
                   staleWake, staleUse, idleStops, termSeen, hy, mvars, ivars>>

\* Where the thread goes on when the iterator it drains is exhausted:
\* line 478 -> 481, line 501 -> 504, a callback of the loop -> the loop
AfterDrain(p) ==
    CASE p = "catchArr" -> "subRem"
      [] p = "catchRem" -> "addStop"
      [] OTHER -> "loop"

\* Mutant of iterate_usb_devices: an if in place of the while, one handle per call
iterate_usb_devices_IfNotWhile(w) ==
    /\ w \in sessions
    /\ ~crashed
    /\ pc[w] \in Draining
    /\ LET p == itPort[w]
           newdev == pc[w] \in {"catchArr", "loopArr"}
           q == IF ports[p].state # "alive" THEN <<>>
                ELSE IF newdev THEN ports[p].arrQ ELSE ports[p].remQ
       IN IF q = <<>>
          THEN /\ pc' = [pc EXCEPT ![w] = AfterDrain(pc[w])]
               /\ UNCHANGED <<ports, log, released>>
          ELSE /\ \E nameOK \in BOOLEAN :
                    log' = [log EXCEPT ![w] =
                              Append(@, get_usb_device_info(Head(q), newdev, nameOK,
                                                            pc[w] \in InLoop))]
               /\ released' = [released EXCEPT ![w] =
                                 Append(@, [dev |-> Head(q), newdev |-> newdev])]
               /\ ports' = IF newdev THEN [ports EXCEPT ![p].arrQ = Tail(q)]
                                     ELSE [ports EXCEPT ![p].remQ = Tail(q)]
               /\ pc' = [pc EXCEPT ![w] = AfterDrain(pc[w])]
    /\ UNCHANGED <<sessions, itPort, InsertedCallback, RemovedCallback, notificationPort,
                   stopRunLoopSource, runLoop, srcs, loopStopped, woke, spc, sh, present, gone,
                   runs, stops, events, crashed, presentAtSub, myPort, mySrc, reachedLoop,
                   returned, stopReq, srcReleases, portDestroys, staleSignal, staleWake,
                   staleUse, idleStops, termSeen, setupFailed, batchStop, earlyStop,
                   mvars, ivars>>

\* Mutant of iterate_usb_devices: a handle whose name cannot be read is not
\* released
iterate_usb_devices_LeaksSkipped(w) ==
    /\ w \in sessions
    /\ ~crashed
    /\ pc[w] \in Draining
    /\ LET p == itPort[w]
           newdev == pc[w] \in {"catchArr", "loopArr"}
           q == IF ports[p].state # "alive" THEN <<>>
                ELSE IF newdev THEN ports[p].arrQ ELSE ports[p].remQ
       IN IF q = <<>>
          THEN /\ pc' = [pc EXCEPT ![w] = AfterDrain(pc[w])]
               /\ UNCHANGED <<ports, log, released>>
          ELSE /\ \E nameOK \in BOOLEAN :
                    /\ log' = [log EXCEPT ![w] =
                                 Append(@, get_usb_device_info(Head(q), newdev, nameOK,
                                                               pc[w] \in InLoop))]
                    /\ released' = IF nameOK
                                   THEN [released EXCEPT ![w] =
                                           Append(@, [dev |-> Head(q), newdev |-> newdev])]
                                   ELSE released
               /\ ports' = IF newdev THEN [ports EXCEPT ![p].arrQ = Tail(q)]
                                     ELSE [ports EXCEPT ![p].remQ = Tail(q)]
               /\ UNCHANGED pc
    /\ UNCHANGED <<sessions, itPort, InsertedCallback, RemovedCallback, notificationPort,
                   stopRunLoopSource, runLoop, srcs, loopStopped, woke, spc, sh, present, gone,
                   runs, stops, events, crashed, presentAtSub, myPort, mySrc, reachedLoop,
                   returned, stopReq, srcReleases, portDestroys, staleSignal, staleWake,
                   staleUse, idleStops, termSeen, setupFailed, batchStop, earlyStop,
                   mvars, ivars>>

\* iterate_usb_devices, lines 368-377: one turn of the while loop.
\* IOIteratorNext yields the next handle or 0; each handle is handed to
\* get_usb_device_info and released.
iterate_usb_devices(w) ==
    /\ w \in sessions
    /\ ~crashed
    /\ pc[w] \in Draining
    /\ LET p == itPort[w]
           newdev == pc[w] \in {"catchArr", "loopArr"}
           q == IF ports[p].state # "alive" THEN <<>>
                ELSE IF newdev THEN ports[p].arrQ ELSE ports[p].remQ
       IN IF q = <<>>
          THEN /\ pc' = [pc EXCEPT ![w] = AfterDrain(pc[w])]
               /\ UNCHANGED <<ports, log, released>>
          ELSE /\ \E nameOK \in BOOLEAN :
                    log' = [log EXCEPT ![w] =
                              Append(@, get_usb_device_info(Head(q), newdev, nameOK,
                                                            pc[w] \in InLoop))]
               /\ released' = [released EXCEPT ![w] =
                                 Append(@, [dev |-> Head(q), newdev |-> newdev])]
               /\ ports' = IF newdev THEN [ports EXCEPT ![p].arrQ = Tail(q)]
                                     ELSE [ports EXCEPT ![p].remQ = Tail(q)]
               /\ UNCHANGED pc
    /\ UNCHANGED <<sessions, itPort, InsertedCallback, RemovedCallback, notificationPort,
                   stopRunLoopSource, runLoop, srcs, loopStopped, woke, spc, sh, present, gone,
                   runs, stops, events, crashed, presentAtSub, myPort, mySrc, reachedLoop,
                   returned, stopReq, srcReleases, portDestroys, staleSignal, staleWake,
                   staleUse, idleStops, termSeen, setupFailed, batchStop, earlyStop,
                   mvars, ivars>>

\* addStopRunLoopSource, lines 402-423
addStopRunLoopSource(w) ==
    /\ w \in sessions
    /\ ~crashed
    /\ pc[w] = "addStop"
    /\ LET s == NewSrc IN
        /\ stopRunLoopSource' = s
        /\ srcs' = [srcs EXCEPT ![s] = [state |-> "alloc", loop |-> runLoop, signaled |-> FALSE]]
        /\ mySrc' = [mySrc EXCEPT ![w] = s]
    /\ pc' = [pc EXCEPT ![w] = "startLoop"]
    /\ UNCHANGED <<sessions, itPort, InsertedCallback, RemovedCallback, notificationPort,
                   runLoop, ports, loopStopped, woke, spc, sh, present, gone, runs, stops,
                   events, crashed, log, presentAtSub, myPort, reachedLoop, returned,
                   stopReq, srcReleases, portDestroys, staleSignal, staleWake, staleUse,
                   hx, mvars, ivars>>

\* Mutant of CFRunLoopRun: the loop goes to sleep at once, without a first
\* pass over its sources
CFRunLoopRun_SleepsFirst(w) ==
    /\ w \in sessions
    /\ ~crashed
    /\ pc[w] = "startLoop"
    /\ pc' = [pc EXCEPT ![w] = "loop"]
    /\ woke' = [woke EXCEPT ![w] = FALSE]
    /\ reachedLoop' = [reachedLoop EXCEPT ![w] = TRUE]
    /\ UNCHANGED <<sessions, itPort, InsertedCallback, RemovedCallback, notificationPort,
                   stopRunLoopSource, runLoop, ports, srcs, loopStopped, spc, sh, present, gone,
                   runs, stops, events, crashed, log, presentAtSub, myPort, mySrc,
                   returned, stopReq, srcReleases, portDestroys, staleSignal, staleWake,
                   staleUse, hx, mvars, ivars>>

\* CFRunLoopRun is entered, line 507: the first pass looks at every source
CFRunLoopRun(w) ==
    /\ w \in sessions
    /\ ~crashed
    /\ pc[w] = "startLoop"
    /\ pc' = [pc EXCEPT ![w] = "loop"]
    /\ woke' = [woke EXCEPT ![w] = TRUE]
    /\ reachedLoop' = [reachedLoop EXCEPT ![w] = TRUE]
    /\ UNCHANGED <<sessions, itPort, InsertedCallback, RemovedCallback, notificationPort,
                   stopRunLoopSource, runLoop, ports, srcs, loopStopped, spc, sh, present, gone,
                   runs, stops, events, crashed, log, presentAtSub, myPort, mySrc,
                   returned, stopReq, srcReleases, portDestroys, staleSignal, staleWake,
                   staleUse, hx, mvars, ivars>>

\* A port attached to loop w has handles waiting for callback usb_device_added
\* (newdev) or usb_device_removed
Deliverable(w, p, newdev) ==
    /\ ports[p].state = "alive"
    /\ ports[p].loop = w
    /\ IF newdev THEN ports[p].arr /\ ports[p].arrQ # <<>>
                 ELSE ports[p].rem /\ ports[p].remQ # <<>>

\* A stop source attached to loop w is signaled
Performable(w, s) ==
    /\ srcs[s].state = "alloc"
    /\ srcs[s].loop = w
    /\ srcs[s].signaled

\* The loop calls usb_device_added / usb_device_removed (lines 379-387)
LoopDeliver(w) ==
    /\ w \in sessions
    /\ ~crashed
    /\ pc[w] = "loop"
    /\ woke[w]
    /\ ~loopStopped[w]
    /\ \E p \in Objs, newdev \in BOOLEAN :
        /\ Deliverable(w, p, newdev)
        /\ itPort' = [itPort EXCEPT ![w] = p]
        /\ pc' = [pc EXCEPT ![w] = IF newdev THEN "loopArr" ELSE "loopRem"]
    /\ UNCHANGED <<sessions, InsertedCallback, RemovedCallback, notificationPort,
                   stopRunLoopSource, runLoop, ports, srcs, loopStopped, woke, spc, sh,
                   present, gone, runs, stops, events, crashed, hvars, mvars, ivars>>

\* Mutant of stopRunLoopSourceCallback: the source is performed as soon as it
\* is signaled, in the middle of a callback, and the callback is abandoned
stopRunLoopSourceCallback_Preempts(w) ==
    /\ w \in sessions
    /\ ~crashed
    /\ pc[w] \in InLoop
    /\ woke[w]
    /\ ~loopStopped[w]
    /\ \E s \in Objs :
        /\ Performable(w, s)
        /\ srcs' = [srcs EXCEPT ![s].signaled = FALSE]
    /\ loopStopped' = CFRunLoopStop(runLoop)
    /\ pc' = [pc EXCEPT ![w] = "loop"]
    /\ UNCHANGED <<sessions, itPort, InsertedCallback, RemovedCallback,
                   notificationPort, stopRunLoopSource, runLoop, ports, woke, spc, sh,
                   present, gone, runs, stops, events, crashed, hvars, mvars, ivars>>

\* stopRunLoopSourceCallback, lines 395-399, performed by the loop for a
\* signaled source: CFRunLoopStop(runLoop)
stopRunLoopSourceCallback(w) ==
    /\ w \in sessions
    /\ ~crashed
    /\ pc[w] = "loop"
    /\ woke[w]
    /\ ~loopStopped[w]
    /\ \E s \in Objs :
        /\ Performable(w, s)
        /\ srcs' = [srcs EXCEPT ![s].signaled = FALSE]
    /\ loopStopped' = CFRunLoopStop(runLoop)
    /\ UNCHANGED <<sessions, pc, itPort, InsertedCallback, RemovedCallback,
                   notificationPort, stopRunLoopSource, runLoop, ports, woke, spc, sh,
                   present, gone, runs, stops, events, crashed, hvars, mvars, ivars>>

\* The loop has nothing to do and blocks until it is woken
LoopSleep(w) ==
    /\ w \in sessions
    /\ ~crashed
    /\ pc[w] = "loop"
    /\ woke[w]
    /\ ~loopStopped[w]
    /\ \A p \in Objs, newdev \in BOOLEAN : ~Deliverable(w, p, newdev)
    /\ \A s \in Objs : ~Performable(w, s)
    /\ woke' = [woke EXCEPT ![w] = FALSE]
    /\ UNCHANGED <<sessions, pc, itPort, InsertedCallback, RemovedCallback,
                   notificationPort, stopRunLoopSource, runLoop, ports, srcs, loopStopped,
                   spc, sh, present, gone, runs, stops, events, crashed, hvars, mvars, ivars>>

\* Mutant of LoopExit: line 510 is missing, the thread goes on at line 521
LoopExit_SkipsRemoveStop(w) ==
    /\ w \in sessions
    /\ ~crashed
    /\ pc[w] = "loop"
    /\ loopStopped[w]
    /\ loopStopped' = [loopStopped EXCEPT ![w] = FALSE]
    /\ pc' = [pc EXCEPT ![w] = "deinit"]
    /\ UNCHANGED <<sessions, itPort, InsertedCallback, RemovedCallback, notificationPort,
                   stopRunLoopSource, runLoop, ports, srcs, woke, spc, sh, present, gone, runs,
                   stops, events, crashed, hvars, mvars, ivars>>

\* CFRunLoopRun returns once the stopped bit is set, line 507 -> 510
LoopExit(w) ==
    /\ w \in sessions
    /\ ~crashed
    /\ pc[w] = "loop"
    /\ loopStopped[w]
    /\ loopStopped' = [loopStopped EXCEPT ![w] = FALSE]
    /\ pc' = [pc EXCEPT ![w] = "removeStop"]
    /\ UNCHANGED <<sessions, itPort, InsertedCallback, RemovedCallback, notificationPort,
                   stopRunLoopSource, runLoop, ports, srcs, woke, spc, sh, present, gone, runs,
                   stops, events, crashed, hvars, mvars, ivars>>

\* Mutant of removeStopRunLoopSource: the global is not reset to NULL
removeStopRunLoopSource_KeepsGlobal(w) ==
    /\ w \in sessions
    /\ ~crashed
    /\ pc[w] = "removeStop"
    /\ IF stopRunLoopSource # NULL
       THEN LET s == stopRunLoopSource IN
            /\ srcs' = [srcs EXCEPT ![s].loop = IF @ = runLoop THEN 0 ELSE @,
                                    ![s].state = "released"]
            /\ srcReleases' = [srcReleases EXCEPT ![s] = @ + 1]
            /\ staleUse' = (staleUse \/ srcs[s].state # "alloc")
            /\ UNCHANGED stopRunLoopSource
       ELSE UNCHANGED <<srcs, srcReleases, staleUse, stopRunLoopSource>>
    /\ pc' = [pc EXCEPT ![w] = "deinit"]
    /\ UNCHANGED <<sessions, itPort, InsertedCallback, RemovedCallback, notificationPort,
                   runLoop, ports, loopStopped, woke, spc, sh, present, gone, runs, stops,
                   events, crashed, log, presentAtSub, myPort, mySrc, reachedLoop,
                   returned, stopReq, portDestroys, staleSignal, staleWake, hx, mvars, ivars>>

\* removeStopRunLoopSource, lines 426-437
removeStopRunLoopSource(w) ==
    /\ w \in sessions
    /\ ~crashed
    /\ pc[w] = "removeStop"
    /\ IF stopRunLoopSource # NULL
       THEN LET s == stopRunLoopSource IN
            /\ srcs' = [srcs EXCEPT ![s].loop = IF @ = runLoop THEN 0 ELSE @,
                                    ![s].state = "released"]
            /\ srcReleases' = [srcReleases EXCEPT ![s] = @ + 1]
            /\ staleUse' = (staleUse \/ srcs[s].state # "alloc")
            /\ stopRunLoopSource' = NULL
       ELSE UNCHANGED <<srcs, srcReleases, staleUse, stopRunLoopSource>>
    /\ pc' = [pc EXCEPT ![w] = "deinit"]
    /\ UNCHANGED <<sessions, itPort, InsertedCallback, RemovedCallback, notificationPort,
                   runLoop, ports, loopStopped, woke, spc, sh, present, gone, runs, stops,
                   events, crashed, log, presentAtSub, myPort, mySrc, reachedLoop,
                   returned, stopReq, portDestroys, staleSignal, staleWake, hx, mvars, ivars>>

\* Mutant of deinit_notifier: the port is detached from the loop but never destroyed
deinit_notifier_NoDestroy(w) ==
    /\ w \in sessions
    /\ ~crashed
    /\ pc[w] = "deinit"
    /\ LET p == notificationPort IN
        /\ ports' = [ports EXCEPT ![p].loop = 0]
        /\ UNCHANGED portDestroys
        /\ staleUse' = (staleUse \/ ports[p].state # "alive")
    /\ pc' = [pc EXCEPT ![w] = "idle"]
    /\ returned' = [returned EXCEPT ![w] = @ + 1]
    /\ UNCHANGED <<sessions, itPort, InsertedCallback, RemovedCallback, notificationPort,
                   stopRunLoopSource, runLoop, srcs, loopStopped, woke, spc, sh, present, gone,
                   runs, stops, events, crashed, log, presentAtSub, myPort, mySrc,
                   reachedLoop, stopReq, srcReleases, staleSignal, staleWake, hx, mvars, ivars>>

\* deinit_notifier, lines 515-521, and the return of StartMacWatcher, line 556
deinit_notifier(w) ==
    /\ w \in sessions
    /\ ~crashed
    /\ pc[w] = "deinit"
    /\ LET p == notificationPort IN
        /\ ports' = [ports EXCEPT ![p] = [NoPort EXCEPT !.state = "destroyed"]]
        /\ portDestroys' = [portDestroys EXCEPT ![p] = @ + 1]
        /\ staleUse' = (staleUse \/ ports[p].state # "alive")
    /\ pc' = [pc EXCEPT ![w] = "idle"]
    /\ returned' = [returned EXCEPT ![w] = @ + 1]
    /\ UNCHANGED <<sessions, itPort, InsertedCallback, RemovedCallback, notificationPort,
                   stopRunLoopSource, runLoop, srcs, loopStopped, woke, spc, sh, present, gone,
                   runs, stops, events, crashed, log, presentAtSub, myPort, mySrc,
                   reachedLoop, stopReq, srcReleases, staleSignal, staleWake, hx, mvars, ivars>>


\* ------------------------------------------------------------- stopper threads
\* StopMacWatcher, line 560: the test of the global.  Nothing orders this read
\* with the watcher thread's writes of stopRunLoopSource.
StopMacWatcher(s) ==
    /\ ~crashed
    /\ spc[s] = "idle"
    /\ stops < StopLimit
    /\ stops' = stops + 1
    /\ idleStops' = idleStops + (IF \A w \in Threads : pc[w] = "idle" THEN 1 ELSE 0)
    /\ stopReq' = [w \in Threads |-> stopReq[w] \/ pc[w] # "idle"]
    /\ IF stopRunLoopSource # NULL
       THEN /\ spc' = [spc EXCEPT ![s] = "signal"]
            /\ sh' = [sh EXCEPT ![s] = stopRunLoopSource]
       ELSE UNCHANGED <<spc, sh>>
    /\ UNCHANGED <<sessions, pc, itPort, InsertedCallback, RemovedCallback,
                   notificationPort, stopRunLoopSource, runLoop, ports, srcs, loopStopped,
                   woke, present, gone, runs, events, crashed, log, presentAtSub, myPort, mySrc,
                   reachedLoop, returned, srcReleases, portDestroys, staleSignal,
                   staleWake, staleUse, termSeen, setupFailed, hy, mvars, ivars>>

\* StopMacWatcher, line 563: CFRunLoopSourceSignal(stopRunLoopSource).  The
\* argument is the value loaded at the test or a second load of the global.
\* A NULL argument ends the process; a released source is either written to
\* without effect or ends the process.
StopSignal(s) ==
    /\ ~crashed
    /\ spc[s] = "signal"
    /\ \E h \in {sh[s], stopRunLoopSource} :
        IF h = NULL
        THEN /\ crashed' = TRUE
             /\ UNCHANGED <<srcs, staleSignal, batchStop, earlyStop>>
        ELSE IF srcs[h].state = "alloc"
        THEN /\ srcs' = [srcs EXCEPT ![h].signaled = TRUE]
             /\ batchStop' = [w \in Threads |->
                                IF /\ batchStop[w] = 0
                                   /\ srcs[h].loop = w
                                   /\ pc[w] \in {"loopArr", "loopRem"}
                                THEN Len(log[w]) + 1
                                ELSE batchStop[w]]
             /\ earlyStop' = [w \in Threads |->
                                earlyStop[w] \/ (srcs[h].loop = w /\ pc[w] = "startLoop")]
             /\ UNCHANGED <<crashed, staleSignal>>
        ELSE /\ staleSignal' = TRUE
             /\ crashed' \in BOOLEAN
             /\ UNCHANGED <<srcs, batchStop, earlyStop>>
    /\ spc' = [spc EXCEPT ![s] = "wake"]
    /\ UNCHANGED <<sessions, pc, itPort, InsertedCallback, RemovedCallback,
                   notificationPort, stopRunLoopSource, runLoop, ports, loopStopped, woke,
                   sh, present, gone, runs, stops, events, log, presentAtSub, myPort, mySrc,
                   reachedLoop, returned, stopReq, srcReleases, portDestroys, staleWake,
                   staleUse, idleStops, termSeen, setupFailed, released, mvars, ivars>>

\* StopMacWatcher, line 566: CFRunLoopWakeUp(runLoop)
StopWake(s) ==
    /\ ~crashed
    /\ spc[s] = "wake"
    /\ woke' = [woke EXCEPT ![runLoop] = TRUE]
    /\ staleWake' = (staleWake \/ pc[runLoop] = "idle")
    /\ spc' = [spc EXCEPT ![s] = "idle"]
    /\ UNCHANGED <<sessions, pc, itPort, InsertedCallback, RemovedCallback,
                   notificationPort, stopRunLoopSource, runLoop, ports, srcs, loopStopped,
                   sh, present, gone, runs, stops, events, crashed, log, presentAtSub, myPort,
                   mySrc, reachedLoop, returned, stopReq, srcReleases, portDestroys,
                   staleSignal, staleUse, hx, mvars, ivars>>

\* ------------------------------------------------------------- the registry
\* Loops that a notification for a new / terminated device wakes
Notified(newdev) ==
    {ports[p].loop : p \in {q \in Objs : /\ ports[q].state = "alive"
                                         /\ IF newdev THEN ports[q].arr ELSE ports[q].rem}}

\* A device is attached: every armed kIOMatchedNotification gets its handle
Plug(d) ==
    /\ ~crashed
    /\ events < MaxEvents
    /\ d \notin present
    /\ d \notin gone
    /\ present' = present \cup {d}
    /\ UNCHANGED gone
    /\ events' = events + 1
    /\ ports' = [p \in Objs |->
                   IF ports[p].state = "alive" /\ ports[p].arr
                   THEN [ports[p] EXCEPT !.arrQ = Append(@, d)]
                   ELSE ports[p]]
    /\ woke' = [w \in Threads |-> woke[w] \/ w \in Notified(TRUE)]
    /\ UNCHANGED <<sessions, pc, itPort, InsertedCallback, RemovedCallback,
                   notificationPort, stopRunLoopSource, runLoop, srcs, loopStopped, spc,
                   sh, runs, stops, crashed, hvars, mvars, ivars>>

\* A device is detached: every armed kIOTerminatedNotification gets its handle
Unplug(d) ==
    /\ ~crashed
    /\ events < MaxEvents
    /\ d \in present
    /\ present' = present \ {d}
    /\ gone' = gone \cup {d}
    /\ events' = events + 1
    /\ termSeen' = [w \in Threads |->
                      IF myPort[w] # 0 /\ ports[myPort[w]].state = "alive" /\ ports[myPort[w]].rem
                      THEN Append(termSeen[w], [dev |-> d, running |-> pc[w] \in InLoop /\ ~loopStopped[w]])
                      ELSE termSeen[w]]
    /\ ports' = [p \in Objs |->
                   IF ports[p].state = "alive" /\ ports[p].rem
                   THEN [ports[p] EXCEPT !.remQ = Append(@, d)]
                   ELSE ports[p]]
    /\ woke' = [w \in Threads |-> woke[w] \/ w \in Notified(FALSE)]
    /\ UNCHANGED <<sessions, pc, itPort, InsertedCallback, RemovedCallback,
                   notificationPort, stopRunLoopSource, runLoop, srcs, loopStopped, spc,
                   sh, runs, stops, crashed, log, presentAtSub, myPort, mySrc, reachedLoop,
                   returned, stopReq, srcReleases, portDestroys, staleSignal, staleWake,
                   staleUse, idleStops, setupFailed, hy, mvars, ivars>>

\* ------------------------------------------------------------- mount points
MaxIfaces == 2      \* mass-storage interfaces the registry iterator yields
MaxServices == 1    \* services IOBSDNameMatching finds for the BSD name
MaxChildren == 2    \* child entries of such a service

\* Sequences over S of length at most n
SeqUpTo(S, n) == UNION {[1..k -> S] : k \in 0..n}

\* Registry paths; the empty string is a valid C string
Paths == {<<1>>, <<1, 2>>, <<2>>}
SysPaths == Paths \cup {<<>>}
\* Volume paths disk arbitration reports; NoPath: the disk has none
NoPath == <<>>
OwnPath == <<60>>
ChildPaths == {<<61>>, <<62>>}

\* A mass-storage interface: IORegistryEntryGetPath succeeds or not; the
\* "BSD Name" property is there or not; malloc + CFStringGetCString succeed or not
Ifaces ==
    {[pathOK |-> FALSE, path |-> <<>>, bsd |-> FALSE, conv |-> FALSE]}
    \cup {[pathOK |-> TRUE, path |-> p, bsd |-> FALSE, conv |-> FALSE] : p \in Paths}
    \cup {[pathOK |-> TRUE, path |-> p, bsd |-> TRUE, conv |-> c] : p \in Paths, c \in BOOLEAN}

\* A child entry of the block device: its "BSD Name" and that disk's volume path
Children ==
    {[bsd |-> FALSE, conv |-> FALSE, mount |-> NoPath]}
    \cup {[bsd |-> TRUE, conv |-> FALSE, mount |-> NoPath]}
    \cup {[bsd |-> TRUE, conv |-> TRUE, mount |-> m] : m \in ChildPaths \cup {NoPath}}

\* A service found for the BSD name: IORegistryEntryGetChildIterator succeeds or not
Services ==
    {[iterOK |-> FALSE, children |-> <<>>]}
    \cup {[iterOK |-> TRUE, children |-> c] : c \in SeqUpTo(Children, MaxChildren)}

MountInputs ==
    [syspathNull : {FALSE}, syspath : SysPaths, ifaces : SeqUpTo(Ifaces, MaxIfaces),
     sessionOK : BOOLEAN, matchOK : BOOLEAN,
     services : SeqUpTo(Services, MaxServices), own : {NoPath, OwnPath}]
    \cup
    [syspathNull : {TRUE}, syspath : {<<>>}, ifaces : SeqUpTo(Ifaces, MaxIfaces),
     sessionOK : {TRUE}, matchOK : {TRUE}, services : {<<>>}, own : {NoPath}]

\* The i-th char of a C string: 0 is the terminator
Ch(s, i) == IF i <= Len(s) THEN s[i] ELSE 0

\* Mutant of StrNCmpEq: the strings are compared over the length of the first
StrNCmpEq_LengthOfFirst(a, b, n) ==
    \A i \in 1..Len(a) : Ch(a, i) = Ch(b, i)

\* strncmp(a, b, n) == 0
StrNCmpEq(a, b, n) ==
    \A i \in 1..n : (\A j \in 1..(i - 1) : Ch(a, j) # 0) => Ch(a, i) = Ch(b, i)

\* GetMountPathFromDisk, lines 91-115: [found, path]
GetMountPathFromDisk(sessionOK, mount) ==
    IF ~sessionOK \/ mount = NoPath
    THEN [found |-> 0, path |-> NoPath]
    ELSE [found |-> 1, path |-> mount]

\* getMountPathByBSDName, lines 153-185: the inner while over the children of
\* one service, left at the first child whose disk has a volume path
RECURSIVE ScanChildren(_, _)
ScanChildren(sessionOK, cs) ==
    IF cs = <<>> THEN [found |-> 0, path |-> NoPath]
    ELSE LET c == Head(cs)
             r == IF c.bsd /\ c.conv THEN GetMountPathFromDisk(sessionOK, c.mount)
                  ELSE [found |-> 0, path |-> NoPath]
         IN IF r.found = 1 THEN r ELSE ScanChildren(sessionOK, Tail(cs))

\* getMountPathByBSDName, lines 146-191: the outer while over the services
RECURSIVE ScanServices(_, _)
ScanServices(sessionOK, ss) ==
    IF ss = <<>> THEN [found |-> 0, path |-> NoPath]
    ELSE LET s == Head(ss)
             r == IF s.iterOK THEN ScanChildren(sessionOK, s.children)
                  ELSE [found |-> 0, path |-> NoPath]
         IN IF r.found = 1 THEN r ELSE ScanServices(sessionOK, Tail(ss))

\* getMountPathByBSDName, lines 118-205
getMountPathByBSDName(in) ==
    IF ~in.sessionOK THEN [found |-> 0, path |-> NoPath]           \* lines 125-129
    ELSE IF ~in.matchOK THEN [found |-> 0, path |-> NoPath]        \* lines 138-143
    ELSE LET r == ScanServices(in.sessionOK, in.services)
         IN IF r.found = 1 THEN r
            ELSE GetMountPathFromDisk(in.sessionOK, in.own)        \* lines 195-201

\* GetMacMountPoint, lines 602-644: the while over the interfaces; the result is
\* [match, calls, sel]: whether an interface matched, the callback calls made,
\* and the position of the interface at which the loop was left (0: none)
RECURSIVE ScanIfaces(_, _)
ScanIfaces(in, is) ==
    IF is = <<>> THEN [match |-> 0, calls |-> <<>>, sel |-> 0]
    ELSE LET i == Head(is)
         IN IF i.pathOK /\ StrNCmpEq(i.path, in.syspath, Len(in.syspath))
            THEN LET r == IF i.bsd /\ i.conv THEN getMountPathByBSDName(in)
                          ELSE [found |-> 0, path |-> NoPath]
                 IN [match |-> 1, calls |-> IF r.found = 1 THEN <<r.path>> ELSE <<>>,
                     sel |-> 1]
            ELSE LET t == ScanIfaces(in, Tail(is))
                 IN [t EXCEPT !.sel = IF @ = 0 THEN 0 ELSE @ + 1]

\* Mutant of GetMacMountPoint: the test of found at line 647 is missing
GetMacMountPoint_AlwaysFinal(in) ==
    IF in.syspathNull THEN << <<>> >>
    ELSE LET r == ScanIfaces(in, in.ifaces)
         IN r.calls \o << <<>> >>

\* GetMacMountPoint, lines 570-649: the arguments of the mountPointCallback calls
GetMacMountPoint(in) ==
    IF in.syspathNull THEN << <<>> >>                               \* lines 572-576
    ELSE LET r == ScanIfaces(in, in.ifaces)
         IN IF r.calls = <<>> THEN << <<>> >> ELSE r.calls         \* lines 647-648

\* The interface whose block device GetMacMountPoint looked up, lines 607-637
SelectedIface(in) == IF in.syspathNull THEN 0 ELSE ScanIfaces(in, in.ifaces).sel

\* One call of GetMacMountPoint
CallGetMacMountPoint ==
    /\ ~mDone
    /\ mCalls' = GetMacMountPoint(mIn)
    /\ mSel' = SelectedIface(mIn)
    /\ mDone' = TRUE
    /\ UNCHANGED <<mIn, wvars, hvars, ivars>>

\* ------------------------------------------------------------- device records
MaxStrLen == 2      \* characters of a string property of the registry

\* sizeof of the UsbDeviceData fields, lines 25-32
DeviceSystemPathCap == 1024
FieldCap == 512

\* Characters (code points) of string properties: A, e-acute, and one outside
\* the basic plane
Chars == {65, 233, 128512}
Strings == SeqUpTo(Chars, MaxStrLen)

\* The path IORegistryEntryGetPath reports, and the name of the device
RegistryPath == <<47, 85>>
RegistryName == <<68>>

\* A CFString property: absent, or a value; malloc of the buffer succeeds or not
StrProps ==
    {[present |-> FALSE, val |-> <<>>, mallocOK |-> TRUE]}
    \cup {[present |-> TRUE, val |-> v, mallocOK |-> TRUE] : v \in Strings}
    \cup {[present |-> TRUE, val |-> <<65>>, mallocOK |-> FALSE]}

\* A CFNumber property: absent, or a value; CFNumberGetValue succeeds or not
NumProps ==
    {[present |-> FALSE, val |-> 0, ok |-> FALSE],
     [present |-> TRUE, val |-> 1133, ok |-> TRUE],
     [present |-> TRUE, val |-> 1133, ok |-> FALSE]}

InfoInputs ==
    {NoInfo} \cup
    [nameOK : {TRUE}, pathOK : BOOLEAN, vendor : StrProps, vendorId : NumProps,
     product : StrProps, productId : NumProps, serial : StrProps]

\* CFStringGetLength: the number of UTF-16 code units
RECURSIVE CFStringGetLength(_)
CFStringGetLength(v) ==
    IF v = <<>> THEN 0
    ELSE (IF Head(v) < 65536 THEN 1 ELSE 2) + CFStringGetLength(Tail(v))

\* The UTF-8 bytes of one code point
Utf8Bytes(c) ==
    IF c < 128 THEN <<c>>
    ELSE IF c < 2048 THEN <<192 + (c \div 64), 128 + (c % 64)>>
    ELSE IF c < 65536
    THEN <<224 + (c \div 4096), 128 + ((c \div 64) % 64), 128 + (c % 64)>>
    ELSE <<240 + (c \div 262144), 128 + ((c \div 4096) % 64),
           128 + ((c \div 64) % 64), 128 + (c % 64)>>

RECURSIVE Utf8Encode(_)
Utf8Encode(v) == IF v = <<>> THEN <<>> ELSE Utf8Bytes(Head(v)) \o Utf8Encode(Tail(v))

\* CFStringGetCString(v, buf, bufSize, kCFStringEncodingUTF8): fails when the
\* bytes and the terminator do not fit; the buffer then holds what did fit
CFStringGetCString(v, bufSize) ==
    LET b == Utf8Encode(v)
    IN IF Len(b) + 1 <= bufSize
       THEN [ok |-> TRUE, buf |-> b]
       ELSE [ok |-> FALSE, buf |-> SubSeq(b, 1, bufSize - 1)]

\* Mutant of CopyStringProperty: the result of CFStringGetCString is not tested
CopyStringProperty_IgnoresResult(prop) ==
    IF ~prop.present THEN <<>>
    ELSE LET len == CFStringGetLength(prop.val) + 1
         IN IF ~prop.mallocOK THEN <<>>
            ELSE Snprintf(CFStringGetCString(prop.val, len).buf, FieldCap)

\* get_usb_device_info, lines 249-267 (vendor), 293-311 (product), 337-354
\* (serial number): what is written to the field, <<>> when it is not touched
CopyStringProperty(prop) ==
    IF ~prop.present THEN <<>>
    ELSE LET len == CFStringGetLength(prop.val) + 1             \* line 253
             r == CFStringGetCString(prop.val, len)             \* line 258
         IN IF ~prop.mallocOK THEN <<>>
            ELSE IF r.ok THEN Snprintf(r.buf, FieldCap)
            ELSE <<>>

\* The characters printf's %d writes for n
RECURSIVE Digits(_)
Digits(n) == IF n < 10 THEN <<48 + n>> ELSE Append(Digits(n \div 10), 48 + (n % 10))
FormatD(n) == IF n < 0 THEN <<45>> \o Digits(-n) ELSE Digits(n)

\* get_usb_device_info, lines 276-284 (idVendor), 320-328 (idProduct)
CopyNumberProperty(prop) ==
    IF prop.present /\ prop.ok THEN Snprintf(FormatD(prop.val), FieldCap) ELSE <<>>

\* static const struct UsbDeviceData empty, line 35
empty ==
    [DeviceName |-> <<>>, DeviceSystemPath |-> <<>>, Product |-> <<>>,
     ProductDescription |-> <<>>, ProductID |-> <<>>, SerialNumber |-> <<>>,
     Vendor |-> <<>>, VendorDescription |-> <<>>, VendorID |-> <<>>]

\* get_usb_device_info, lines 226-354: the local usbDevice when the listener
\* is called
usbDevice(in) ==
    [empty EXCEPT
        !.DeviceName = Snprintf(RegistryName, DeviceNameCap),
        !.DeviceSystemPath = IF in.pathOK THEN Snprintf(RegistryPath, DeviceSystemPathCap)
                             ELSE @,
        !.Vendor = CopyStringProperty(in.vendor),
        !.VendorDescription = CopyStringProperty(in.vendor),
        !.VendorID = CopyNumberProperty(in.vendorId),
        !.Product = CopyStringProperty(in.product),
        !.ProductDescription = CopyStringProperty(in.product),
        !.ProductID = CopyNumberProperty(in.productId),
        !.SerialNumber = CopyStringProperty(in.serial)]

\* One call of get_usb_device_info: the listener calls it makes, lines 219-365
CallGetUsbDeviceInfo ==
    /\ ~iDone
    /\ iCalls' = IF iIn.nameOK THEN <<usbDevice(iIn)>> ELSE <<>>
    /\ iDone' = TRUE
    /\ UNCHANGED <<iIn, wvars, hvars, mvars>>

\* ------------------------------------------------------------- specification
\* The steps of a thread that is inside StartMacWatcher
WatcherStep(w) ==
    \/ init_notifier(w)
    \/ SubscribeArrival(w)
    \/ SubscribeRemoval(w)
    \/ iterate_usb_devices(w)
    \/ addStopRunLoopSource(w)
    \/ CFRunLoopRun(w)
    \/ LoopDeliver(w)
    \/ stopRunLoopSourceCallback(w)
    \/ LoopSleep(w)
    \/ LoopExit(w)
    \/ removeStopRunLoopSource(w)
    \/ deinit_notifier(w)

Next ==
    \/ \E w \in Threads : StartMacWatcher(w)
    \/ \E w \in Threads : init_notifier(w)
    \/ \E w \in Threads : SubscribeArrival(w)
    \/ \E w \in Threads : SubscribeRemoval(w)
    \/ \E w \in Threads : iterate_usb_devices(w)
    \/ \E w \in Threads : addStopRunLoopSource(w)
    \/ \E w \in Threads : CFRunLoopRun(w)
    \/ \E w \in Threads : LoopDeliver(w)
    \/ \E w \in Threads : stopRunLoopSourceCallback(w)
    \/ \E w \in Threads : LoopSleep(w)
    \/ \E w \in Threads : LoopExit(w)
    \/ \E w \in Threads : removeStopRunLoopSource(w)
    \/ \E w \in Threads : deinit_notifier(w)
    \/ \E s \in Stoppers : StopMacWatcher(s)
    \/ \E s \in Stoppers : StopSignal(s)
    \/ \E s \in Stoppers : StopWake(s)
    \/ \E d \in Devices : Plug(d)
    \/ \E d \in Devices : Unplug(d)

Spec == Init /\ [][Next]_vars


\* Two threads call StartMacWatcher, each with its own pair of listeners
Init2 ==
    /\ InitWatcher
    /\ sessions = {1, 2}
    /\ present = {1}
    /\ mIn = NoMount /\ mCalls = <<>> /\ mSel = 0 /\ mDone = TRUE
    /\ iIn = NoInfo /\ iCalls = <<>> /\ iDone = TRUE

Spec2 == Init2 /\ [][Next]_vars

\* The watcher thread and a thread inside StopMacWatcher keep running; nobody
\* is obliged to call StartMacWatcher or StopMacWatcher, or to plug a device.
FairSpec ==
    /\ Spec
    /\ \A w \in Threads : WF_vars(WatcherStep(w))
    /\ \A s \in Stoppers : WF_vars(StopSignal(s) \/ StopWake(s))


\* One call of GetMacMountPoint on any syspath and any registry contents
InitMount ==
    /\ InitWatcher
    /\ sessions = {1}
    /\ present = {}
    /\ mIn \in MountInputs
    /\ mCalls = <<>>
    /\ mSel = 0
    /\ mDone = FALSE
    /\ iIn = NoInfo /\ iCalls = <<>> /\ iDone = TRUE

NextMount == CallGetMacMountPoint

MountSpec == InitMount /\ [][NextMount]_vars

\* One call of get_usb_device_info on a handle with any registry properties
InitInfo ==
    /\ InitWatcher
    /\ sessions = {1}
    /\ present = {}
    /\ mIn = NoMount /\ mCalls = <<>> /\ mSel = 0 /\ mDone = TRUE
    /\ iIn \in InfoInputs
    /\ iCalls = <<>>
    /\ iDone = FALSE

NextInfo == CallGetUsbDeviceInfo

InfoSpec == InitInfo /\ [][NextInfo]_vars


\* ------------------------------------------------------------- properties
\* The watcher state StopMacWatcher could touch: globals, loops, sources, ports
WatcherState == <<pc, itPort, InsertedCallback, RemovedCallback, notificationPort,
                  stopRunLoopSource, runLoop, ports, srcs, loopStopped, woke, crashed>>

NoRunActive == \A w \in Threads : pc[w] = "idle"

\* C1: whenever StopMacWatcher is called while a run of StartMacWatcher is
\* active (at any point after it was entered, also before the stop source
\* exists), that run eventually returns (or the process has died).
C1_StopMakesRunReturn ==
    \A w \in Threads : (stopReq[w] /\ pc[w] # "idle") ~> (pc[w] = "idle" \/ crashed)

\* No stop source is ever released twice; a released source is detached; a run
\* that reached the loop and has left it has released its source exactly once
C2_ReleasedOnce ==
    /\ \A s \in Objs : /\ srcReleases[s] <= 1
                       /\ srcs[s].state = "released" => srcReleases[s] = 1 /\ srcs[s].loop = 0
    /\ \A w \in sessions :
         (reachedLoop[w] /\ pc[w] \in {"deinit", "idle"}) => srcReleases[mySrc[w]] = 1

\* A StopMacWatcher call entered while no run is active returns at once and
\* leaves the watcher state as it is
C2_IdleStopNoOp ==
    \A s \in Stoppers :
        (StopMacWatcher(s) /\ NoRunActive) => (UNCHANGED WatcherState /\ spc'[s] = "idle")

\* C2: stop is idempotent and a no-op outside a run: whatever the number of
\* StopMacWatcher calls before, during or after a run, the stop source is
\* detached and released exactly once per run, never a second time, and a call
\* made while no run is active changes no watcher state.
C2_StopIdempotent == [](C2_ReleasedOnce) /\ [][C2_IdleStopNoOp]_vars

\* C2 witness: a run has released its stop source and returned, and
\* StopMacWatcher has been called (and has returned) with no run active
C2_Witness ==
    /\ pc[1] = "idle" /\ returned[1] = 1 /\ reachedLoop[1]
    /\ srcReleases[mySrc[1]] = 1
    /\ idleStops >= 1
    /\ \A s \in Stoppers : spc[s] = "idle"

\* C3: StopMacWatcher never signals a stop source that has been released and
\* never wakes a loop that no run is bound to.
C3_NoStaleHandle == ~staleSignal /\ ~staleWake

\* C4: two sessions running on two threads do not interfere: every listener
\* call a session's thread makes goes to that session's own listeners.
C4_OwnListenersOnly ==
    \A w \in sessions : \A i \in 1..Len(log[w]) : log[w][i].lst \in {0, w, -w}


\* The handles of device d that thread w took from an arrival (newdev) or
\* removal iterator in its current run, as positions of the log
Entries(w, d, newdev) ==
    {i \in 1..Len(log[w]) : log[w][i].dev = d /\ log[w][i].newdev = newdev}
\* Those of them for which the listener was called
Calls(w, d, newdev) == {i \in Entries(w, d, newdev) : log[w][i].lst # 0}
\* The run of w has finished the catch-up pass of line 478
PastCatchUp(w) == pc[w] \notin {"init", "subArr", "catchArr"}

Range(s) == {s[i] : i \in 1..Len(s)}
\* Devices whose termination was reported to the current run of w, and those
\* of them reported while the loop was running and had not been stopped
Terminated(w) == {e.dev : e \in Range(termSeen[w])}
TerminatedRunning(w) == {e.dev : e \in {x \in Range(termSeen[w]) : x.running}}

C7_OtherDirectionStillRuns ==
    \A w \in sessions : (setupFailed[w] # "none" /\ pc[w] = "idle") => reachedLoop[w]

\* C8: on every exit path of StartMacWatcher, when it has returned the port
\* made at entry is detached and was destroyed exactly once, and no stop
\* source is attached or allocated: either the loop never started and no
\* source was made, or the source was released exactly once.
C8_NoPartialState ==
    /\ \A p \in Objs : portDestroys[p] <= 1
    /\ \A w \in sessions : (pc[w] = "idle" /\ returned[w] > 0) =>
        /\ ports[myPort[w]].state = "destroyed"
        /\ ports[myPort[w]].loop = 0
        /\ portDestroys[myPort[w]] = 1
        /\ \A s \in Objs : srcs[s].state # "alloc" /\ srcs[s].loop = 0
        /\ stopRunLoopSource = NULL
        /\ IF reachedLoop[w] THEN srcReleases[mySrc[w]] = 1 ELSE mySrc[w] = 0

\* C8 witness: a first run left on a set-up failure (it made port 1 and no
\* stop source), a second run went through the loop and was stopped; both
\* have returned
C8_Witness ==
    /\ pc[1] = "idle" /\ returned[1] = 2
    /\ reachedLoop[1] /\ myPort[1] = 2 /\ mySrc[1] = 1


\* The first interface, in iteration order, that GetMacMountPoint matches
\* against syspath (0: none)
FirstMatch(in) ==
    LET M == {i \in 1..Len(in.ifaces) :
                /\ in.ifaces[i].pathOK
                /\ StrNCmpEq(in.ifaces[i].path, in.syspath, Len(in.syspath))}
    IN IF in.syspathNull \/ M = {} THEN 0 ELSE CHOOSE i \in M : \A j \in M : i <= j

\* The matched interface has a block-device name that could be converted
MatchedBSDName(in) ==
    /\ FirstMatch(in) # 0
    /\ in.ifaces[FirstMatch(in)].bsd
    /\ in.ifaces[FirstMatch(in)].conv

\* A mount point was found for the matched interface's block device
MountFound(in) == MatchedBSDName(in) /\ getMountPathByBSDName(in).found = 1

\* C9: every call of GetMacMountPoint calls mountPointCallback exactly once
\* before it returns, on every path, and the argument is the empty string
\* exactly when no mount point was found.
C9_CallbackExactlyOnce ==
    /\ ~mDone => mCalls = <<>>
    /\ mDone => /\ Len(mCalls) = 1
                /\ (mCalls[1] = <<>>) <=> ~MountFound(mIn)
                /\ MountFound(mIn) => mCalls[1] = getMountPathByBSDName(mIn).path

\* C9 witness: the call returned after the second interface matched and a
\* mount path was found for it
C9_Witness ==
    /\ mDone
    /\ FirstMatch(mIn) = 2
    /\ MountFound(mIn)
    /\ mCalls = <<getMountPathByBSDName(mIn).path>>

\* The volume paths of the child block devices the child search can see: none
\* when the lookup of the block device's services failed
ChildMounts(in) ==
    IF ~in.matchOK THEN {}
    ELSE {in.services[k].children[j].mount :
            <<k, j>> \in {x \in (1..Len(in.services)) \X (1..MaxChildren) :
                            /\ in.services[x[1]].iterOK
                            /\ x[2] <= Len(in.services[x[1]].children)
                            /\ in.services[x[1]].children[x[2]].bsd
                            /\ in.services[x[1]].children[x[2]].conv
                            /\ in.services[x[1]].children[x[2]].mount # NoPath}}

\* C10: for a matched block device (disk arbitration being reachable) the
\* result is a child's mount path if a child has one; otherwise, whenever the
\* child search yielded none, for whatever reason including a failed lookup,
\* the block device's own mount path if it has one; only else no mount point.
C10_FallsBackToOwnPath ==
    (mDone /\ MatchedBSDName(mIn) /\ mIn.sessionOK) =>
        /\ Len(mCalls) = 1
        /\ IF ChildMounts(mIn) # {} THEN mCalls[1] \in ChildMounts(mIn)
           ELSE IF mIn.own # NoPath THEN mCalls[1] = mIn.own
           ELSE mCalls[1] = <<>>


\* The iterator thread w drains: what IOIteratorNext has still to yield
DrainQ(w) ==
    IF pc[w] \notin Draining \/ ports[itPort[w]].state # "alive" THEN <<>>
    ELSE IF pc[w] \in {"catchArr", "loopArr"} THEN ports[itPort[w]].arrQ
    ELSE ports[itPort[w]].remQ

\* A listener was called for exactly the handles whose name could be read
C11_NamedOnly ==
    \A w \in sessions : \A i \in 1..Len(log[w]) :
        /\ (log[w][i].lst # 0) <=> log[w][i].named
        /\ log[w][i].named => log[w][i].name = DevName(log[w][i].dev)

\* The step that takes a handle whose name cannot be read leaves the thread
\* in the same batch, with every handle after it still to be yielded
C11_BatchGoesOn ==
    \A w \in sessions :
        (Len(log'[w]) = Len(log[w]) + 1 /\ ~log'[w][Len(log'[w])].named) =>
            /\ pc'[w] = pc[w]
            /\ pc[w] \in Draining
            /\ log'[w][Len(log'[w])].dev = Head(DrainQ(w))
            /\ DrainQ(w)' = Tail(DrainQ(w))

\* C11: in every notification batch a listener is called for exactly the
\* handles whose device name could be read: a handle whose name cannot be read
\* gets no listener call, and the handles after it in the batch are still
\* processed.
C11_SkipsOnlyUnnamed == [](C11_NamedOnly) /\ [][C11_BatchGoesOn]_vars

\* C11 witness: in the catch-up batch the name of the first handle could not
\* be read, no listener was called for it, and the second handle got its call
C11_Witness ==
    /\ Len(log[1]) = 2
    /\ ~log[1][1].named /\ log[1][1].lst = 0 /\ ~log[1][1].inLoop
    /\ log[1][2].named /\ log[1][2].lst = 1 /\ ~log[1][2].inLoop
    /\ log[1][2].dev # log[1][1].dev


\* Decoding of UTF-8 bytes to code points; <<-1>> marks bytes that are not
\* a complete encoding
RECURSIVE Utf8Decode(_)
Utf8Decode(b) ==
    IF b = <<>> THEN <<>>
    ELSE LET h == Head(b)
             n == IF h < 128 THEN 1 ELSE IF h < 192 THEN 0 ELSE IF h < 224 THEN 2
                  ELSE IF h < 240 THEN 3 ELSE 4
             lead == IF n = 1 THEN h ELSE IF n = 2 THEN h - 192 ELSE IF n = 3 THEN h - 224
                     ELSE h - 240
             Cont(k) == b[k] - 128
         IN IF n = 0 \/ Len(b) < n \/ \E k \in 2..n : b[k] < 128 \/ b[k] >= 192
            THEN <<-1>>
            ELSE LET c == IF n = 1 THEN lead
                          ELSE IF n = 2 THEN lead * 64 + Cont(2)
                          ELSE IF n = 3 THEN lead * 4096 + Cont(2) * 64 + Cont(3)
                          ELSE lead * 262144 + Cont(2) * 4096 + Cont(3) * 64 + Cont(4)
                 IN <<c>> \o Utf8Decode(SubSeq(b, n + 1, Len(b)))

\* The string property is there, its buffer could be allocated and its UTF-8
\* bytes fit into a field
Fits(prop) == prop.present /\ prop.mallocOK /\ Len(Utf8Encode(prop.val)) < FieldCap

\* C12: every string property (vendor name, product name, serial number)
\* whose UTF-8 encoding fits within the field capacity is in the record
\* exactly as the platform reports it, multi-byte characters included.
C12_StringsRoundTrip ==
    (iDone /\ iIn.nameOK) =>
        /\ Len(iCalls) = 1
        /\ Fits(iIn.vendor) => /\ Utf8Decode(iCalls[1].Vendor) = iIn.vendor.val
                               /\ Utf8Decode(iCalls[1].VendorDescription) = iIn.vendor.val
        /\ Fits(iIn.product) => /\ Utf8Decode(iCalls[1].Product) = iIn.product.val
                                /\ Utf8Decode(iCalls[1].ProductDescription) = iIn.product.val
        /\ Fits(iIn.serial) => Utf8Decode(iCalls[1].SerialNumber) = iIn.serial.val


\* The string property is absent, or its conversion failed: no buffer, or
\* CFStringGetCString gave up on the buffer it was handed
StrFailed(prop) ==
    \/ ~prop.present
    \/ ~prop.mallocOK
    \/ Len(Utf8Encode(prop.val)) > CFStringGetLength(prop.val)
\* The number property is absent, or CFNumberGetValue failed
NumFailed(prop) == ~prop.present \/ ~prop.ok

\* C18: in every record handed to a listener each optional field (registry
\* path, vendor, vendor id, product, product id, serial number) whose property
\* is absent or whose conversion failed is the empty string, never a partly
\* written value, and every other field holds its complete value whatever
\* happened to the fields around it.
C18_EmptyOnFailure ==
    (iDone /\ iIn.nameOK) =>
        /\ Len(iCalls) = 1
        /\ iCalls[1].DeviceSystemPath = (IF iIn.pathOK THEN RegistryPath ELSE <<>>)
        /\ iCalls[1].Vendor =
              (IF StrFailed(iIn.vendor) THEN <<>> ELSE Utf8Encode(iIn.vendor.val))
        /\ iCalls[1].VendorDescription = iCalls[1].Vendor
        /\ iCalls[1].VendorID =
              (IF NumFailed(iIn.vendorId) THEN <<>> ELSE FormatD(iIn.vendorId.val))
        /\ iCalls[1].Product =
              (IF StrFailed(iIn.product) THEN <<>> ELSE Utf8Encode(iIn.product.val))
        /\ iCalls[1].ProductDescription = iCalls[1].Product
        /\ iCalls[1].ProductID =
              (IF NumFailed(iIn.productId) THEN <<>> ELSE FormatD(iIn.productId.val))
        /\ iCalls[1].SerialNumber =
              (IF StrFailed(iIn.serial) THEN <<>> ELSE Utf8Encode(iIn.serial.val))

\* C18 witness: the vendor name is absent, the conversion of the product name
\* failed, CFNumberGetValue failed for the product id and the path could not
\* be read; those fields are empty while the serial number and the vendor id
\* hold their values
C18_Witness ==
    /\ iDone /\ iIn.nameOK /\ Len(iCalls) = 1
    /\ ~iIn.pathOK /\ ~iIn.vendor.present
    /\ iIn.product.present /\ iIn.product.mallocOK /\ iIn.product.val = <<65, 233>>
    /\ iIn.productId.present /\ ~iIn.productId.ok
    /\ iIn.serial.val = <<65, 65>> /\ iIn.vendorId.ok
    /\ iCalls[1].DeviceSystemPath = <<>> /\ iCalls[1].Vendor = <<>>
    /\ iCalls[1].Product = <<>> /\ iCalls[1].ProductID = <<>>
    /\ iCalls[1].SerialNumber = <<65, 65>>
    /\ iCalls[1].VendorID = <<49, 49, 51, 51>>


\* The order of the teardown of a run that reached the loop
C13_TeardownOrder ==
    \A w \in sessions : reachedLoop[w] =>
        /\ srcs[mySrc[w]].state = "released" => pc[w] \in {"deinit", "idle"}
        /\ pc[w] \in InLoop \cup {"removeStop"} => srcs[mySrc[w]].state = "alloc"
        /\ ports[myPort[w]].state = "destroyed" =>
              srcs[mySrc[w]].state = "released" /\ pc[w] = "idle"
        /\ pc[w] = "deinit" => ports[myPort[w]].state = "alive"
        /\ pc[w] = "idle" => ports[myPort[w]].state = "destroyed"

\* A thread that is not draining an iterator calls no listener; after the
\* loop has returned the thread never drains one again in that run
C13_NoCallAfterLoop ==
    \A w \in sessions :
        /\ pc[w] \notin Draining => Len(log'[w]) <= Len(log[w])
        /\ pc[w] \in {"removeStop", "deinit"} => pc'[w] \in {"removeStop", "deinit", "idle"}

\* C13: in a run that reached the loop the stop source is detached and
\* released only after CFRunLoopRun has returned, the notification port is
\* detached and destroyed only after the stop source was released,
\* StartMacWatcher returns only after the port was destroyed, and no listener
\* is called once the loop has returned.
C13_ShutdownSequence == [](C13_TeardownOrder) /\ [][C13_NoCallAfterLoop]_vars

\* C13 witness: a run that called a listener from its loop was stopped and
\* has returned, its stop source released and its port destroyed
C13_Witness ==
    /\ pc[1] = "idle" /\ returned[1] = 1 /\ reachedLoop[1]
    /\ \E i \in 1..Len(log[1]) : log[1][i].inLoop /\ log[1][i].lst # 0
    /\ srcs[mySrc[1]].state = "released"
    /\ ports[myPort[1]].state = "destroyed"


\* IOObjectRelease was called once on every handle an iterator has yielded,
\* in the order they were yielded, whether or not its name could be read
C14_ReleasedEachOnce ==
    \A w \in sessions :
        /\ Len(released[w]) = Len(log[w])
        /\ \A i \in 1..Len(log[w]) :
             /\ released[w][i].dev = log[w][i].dev
             /\ released[w][i].newdev = log[w][i].newdev
        /\ \A d \in Devices, n \in BOOLEAN :
             Cardinality({i \in 1..Len(released[w]) :
                            released[w][i] = [dev |-> d, newdev |-> n]}) <= 1

\* A thread leaves iterate_usb_devices only when IOIteratorNext has nothing
\* more to yield
C14_DrainedToTheEnd ==
    \A w \in sessions :
        (pc[w] \in Draining /\ pc'[w] # pc[w]) =>
            /\ DrainQ(w) = <<>>
            /\ pc'[w] = AfterDrain(pc[w])

\* C14: on every notification delivery, catch-up or live, the iterator is
\* drained until it yields nothing more, and every handle it yields is
\* released exactly once, whether or not a record could be made for it.
C14_DrainAndRelease == [](C14_ReleasedEachOnce) /\ [][C14_DrainedToTheEnd]_vars

\* C14 witness: the catch-up delivery yielded two handles, the name of one of
\* them could not be read, both were released and the iterator is exhausted
C14_Witness ==
    /\ pc[1] = "subRem"
    /\ Len(log[1]) = 2
    /\ \E i \in 1..2 : ~log[1][i].named
    /\ released[1] = <<[dev |-> 1, newdev |-> TRUE], [dev |-> 2, newdev |-> TRUE]>>


\* The position in the log of w of the catch-up arrival handle of device d
\* (0: not taken yet)
CatchUpPos(w, d) ==
    LET E == {i \in Entries(w, d, TRUE) : ~log[w][i].inLoop}
    IN IF E = {} THEN 0 ELSE CHOOSE i \in E : TRUE

\* An arrival delivery calls the arrival listener only, a removal delivery the
\* removal listener only; the devices present at registration are taken in
\* the order of the registry
C15_KindAndRegistryOrder ==
    \A w \in sessions :
        /\ \A i \in 1..Len(log[w]) :
             /\ released[w][i].newdev => log[w][i].lst \in {0, w}
             /\ ~released[w][i].newdev => log[w][i].lst \in {0, -w}
        /\ \A d, e \in presentAtSub[w] :
             (d < e /\ CatchUpPos(w, e) # 0) =>
                 (CatchUpPos(w, d) # 0 /\ CatchUpPos(w, d) < CatchUpPos(w, e))

\* Every step that calls a listener or skips a handle takes the handle the
\* iterator yields next, and leaves the rest in the iterator's order
C15_NextInIteratorOrder ==
    \A w \in sessions :
        Len(log'[w]) > Len(log[w]) =>
            /\ log'[w] = Append(log[w], log'[w][Len(log'[w])])
            /\ DrainQ(w) # <<>>
            /\ log'[w][Len(log'[w])].dev = Head(DrainQ(w))
            /\ DrainQ(w)' = Tail(DrainQ(w))

\* C15: within one notification delivery the listener calls are made in the
\* order in which the registry iterator yields the handles, and an arrival
\* delivery calls only the arrival listener while a removal delivery calls
\* only the removal listener.
C15_DeliveryOrder == [](C15_KindAndRegistryOrder) /\ [][C15_NextInIteratorOrder]_vars

\* C15 witness: the catch-up delivery called the arrival listener for device
\* 1 and then for device 2, and a removal delivery of the loop called the
\* removal listener
C15_Witness ==
    /\ Len(log[1]) = 3
    /\ log[1][1].dev = 1 /\ log[1][1].newdev /\ log[1][1].lst = 1
    /\ log[1][2].dev = 2 /\ log[1][2].newdev /\ log[1][2].lst = 1
    /\ ~log[1][3].newdev /\ log[1][3].lst = -1 /\ log[1][3].inLoop


\* A thread inside usb_device_added / usb_device_removed stays there until the
\* iterator is exhausted and then goes back to the loop; the stopped bit is not
\* set meanwhile.  CFRunLoopRun returns only from the loop itself, after the
\* stop source was performed.
C16_NoPreemption ==
    \A w \in sessions :
        /\ pc[w] \in {"loopArr", "loopRem"} =>
             /\ pc'[w] = pc[w] \/ (pc'[w] = "loop" /\ DrainQ(w) = <<>>)
             /\ ~loopStopped[w] /\ ~loopStopped'[w]
             /\ Len(log'[w]) >= Len(log[w])
        /\ (pc'[w] = "removeStop" /\ pc[w] # "removeStop") =>
             (pc[w] = "loop" /\ loopStopped[w])

\* C16: a stop requested while a notification batch is being processed on the
\* watcher thread does not interrupt it: the batch runs to its end, and the
\* loop exits and the teardown begins only afterwards, when the thread is back
\* in the loop.
C16_StopIsCooperative == [][C16_NoPreemption]_vars

\* C16 witness: the stop source was signaled while the thread was inside a
\* callback of the loop, the listener was still called for the handle of that
\* batch, and the run has then left the loop and returned
C16_Witness ==
    /\ batchStop[1] > 0
    /\ Len(log[1]) >= batchStop[1]
    /\ log[1][batchStop[1]].inLoop /\ log[1][batchStop[1]].lst # 0
    /\ pc[1] = "idle" /\ returned[1] = 1


\* p is a prefix of s
IsPrefix(p, s) == Len(p) <= Len(s) /\ SubSeq(s, 1, Len(p)) = p

\* The first position of a set of interface positions (0: the set is empty)
FirstOf(M) == IF M = {} THEN 0 ELSE CHOOSE i \in M : \A j \in M : i <= j

\* C17 as stated: the interface selected is the first one, in iteration
\* order, whose own registry path is a prefix of the given device path.
C17_Original ==
    (mDone /\ ~mIn.syspathNull) =>
        mSel = FirstOf({i \in 1..Len(mIn.ifaces) :
                          /\ mIn.ifaces[i].pathOK
                          /\ IsPrefix(mIn.ifaces[i].path, mIn.syspath)})

\* C17 amended: the interface selected is the first one, in iteration order,
\* whose registry path could be read and begins with the given device path
\* (the given path is a prefix of the interface's path); only that interface
\* is examined for a mount point, and an interface whose path does not begin
\* with the given path is never selected.
C17_FirstIfaceUnderDevicePath ==
    (mDone /\ ~mIn.syspathNull) =>
        /\ mSel = FirstOf({i \in 1..Len(mIn.ifaces) :
                             /\ mIn.ifaces[i].pathOK
                             /\ IsPrefix(mIn.syspath, mIn.ifaces[i].path)})
        /\ (mSel # 0 /\ ~(mIn.ifaces[mSel].bsd /\ mIn.ifaces[mSel].conv)) =>
              mCalls = << <<>> >>

\* C17 witness: the path of the first interface is a proper prefix of the
\* given path and is passed over, the second interface lies under the given
\* path and is selected, and its mount point is reported
C17_Witness ==
    /\ mDone /\ mSel = 2
    /\ mIn.syspath = <<1, 2>>
    /\ mIn.ifaces[1].pathOK /\ mIn.ifaces[1].path = <<1>>
    /\ mIn.ifaces[2].path = <<1, 2>>
    /\ mCalls = <<OwnPath>>


\* C19: the loop handle, the notification port handle and the stop source
\* handle of the session are set only while StartMacWatcher is executing:
\* before it is entered and after it has returned none of the three is set.
C19_HandlesOnlyDuringRun ==
    NoRunActive =>
        /\ runLoop = NULL
        /\ notificationPort = NULL
        /\ stopRunLoopSource = NULL

\* C20: a stop whose signal reaches the stop source after
\* addStopRunLoopSource and before CFRunLoopRun is not lost: the signal stays
\* pending, the loop performs it when it starts, and the run returns without
\* any further event or stop call (or the process has died).
C20_EarlyStopNotLost ==
    \A w \in Threads :
        (pc[w] = "startLoop" /\ mySrc[w] # 0 /\ srcs[mySrc[w]].signaled)
            ~> (pc[w] = "idle" \/ crashed)

\* C20 witness: the stop source was signaled between addStopRunLoopSource and
\* CFRunLoopRun, no device came or went and no second stop was called, and
\* the run has been through the loop and has returned
C20_Witness ==
    /\ earlyStop[1]
    /\ pc[1] = "idle" /\ returned[1] = 1 /\ reachedLoop[1]
    /\ events = 0 /\ stops = 1


\* C21: within one run the arrival catch-up pass is over before the removal
\* subscription is registered: once it is registered every device present at
\* the arrival registration has had its handle taken, and in the run's
\* sequence of listener calls every arrival call for such a device comes
\* before every removal call.
C21_CatchUpBeforeRemovals ==
    \A w \in sessions :
        /\ (myPort[w] # 0 /\ ports[myPort[w]].rem) =>
             \A d \in presentAtSub[w] : CatchUpPos(w, d) # 0
        /\ \A i, j \in 1..Len(log[w]) :
             (/\ log[w][i].newdev
              /\ log[w][i].dev \in presentAtSub[w]
              /\ ~log[w][j].newdev) => i < j

\* C21 witness: two devices were present at start, the arrival listener was
\* called for both in the catch-up pass, one of them was detached right after
\* the removal subscription, and the removal listener was called for it
C21_Witness ==
    /\ presentAtSub[1] = {1, 2}
    /\ Len(log[1]) = 3
    /\ log[1][1].newdev /\ log[1][1].lst = 1
    /\ log[1][2].newdev /\ log[1][2].lst = 1
    /\ ~log[1][3].newdev /\ log[1][3].lst = -1 /\ ~log[1][3].inLoop


\* C22: a run entered after an earlier run has returned behaves like a first
\* run: it makes a fresh port and a fresh stop source and blocks in the loop,
\* and it leaves the loop only if StopMacWatcher is called again during it;
\* stop calls issued during the earlier run or while no run was active do not
\* end it.
C22_RerunLikeFirstRun ==
    \A w \in sessions : (returned[w] >= 1 /\ pc[w] # "idle") =>
        /\ myPort[w] # 0 => portDestroys[myPort[w]] = 0 /\ ports[myPort[w]].state = "alive"
        /\ (mySrc[w] # 0 /\ pc[w] \in InLoop \cup {"startLoop", "removeStop"}) =>
              srcReleases[mySrc[w]] = 0 /\ srcs[mySrc[w]].state = "alloc"
        /\ (reachedLoop[w] /\ pc[w] \in {"removeStop", "deinit"}) => stopReq[w]

====
